---- MODULE Spec2Model ----
(***************************************************************************)
(* A model of the luca content-management backend: the dynamic filter      *)
(* engine (core/base_filter.py), the repository operations over the        *)
(* entity store (models/orm_models), the response envelope                 *)
(* (core/renderer.py), the content tables and their foreign keys, the      *)
(* query service with its one-shot wrappers, and the list endpoints.       *)
(***************************************************************************)
EXTENDS Integers, Sequences, FiniteSets, TLC

VARIABLES
    call,      \* the last apply_filters call: the filter entries and the table
    result,    \* what that call produced: raised, the built query, the rows
    db,        \* the committed rows of luca_collections
    nextId,    \* the identifiers handed out so far, plus one
    pending,   \* per session: the objects added and not yet committed
    dirty,     \* per session: the attributes set on a loaded object, uncommitted
    goc,       \* per session: the get_or_create that found nothing and will create
    last,      \* the operation that ran last, with its arguments and outcome
    response,  \* the last response built: how, from what, and the envelope
    collections, \* the committed rows of luca_collections: name and singleton
    contents,  \* the committed rows of luca_content
    references, \* the committed rows of the other tables that name a collection
    done,      \* the content operation that ran last, with its outcome
    service,   \* the DBService: the query built so far and its _executed flag
    wrappers,  \* the QueryResult and the QueryResultList the caller holds
    returned,  \* what the last call on the service or on a wrapper answered
    listed,    \* the rows of the table a list endpoint reads
    listing    \* the pages requested so far, with the endpoint and the limit

filterVars == <<call, result>>
storeVars == <<db, nextId, pending, dirty, goc, last>>
envelopeVars == <<response>>
contentVars == <<collections, contents, references, done>>
queryVars == <<service, wrappers, returned>>
pageVars == <<listed, listing>>
vars == <<call, result, db, nextId, pending, dirty, goc, last, response,
          collections, contents, references, done,
          service, wrappers, returned, listed, listing>>

(***************************************************************************)
(* Text.  A Python str is a sequence of symbols: "_" is the underscore and *)
(* every other symbol stands for one run of characters without underscore. *)
(***************************************************************************)
None == <<>>
Some(x) == <<x>>

\* A filter value, tagged with its Python type.
IntVal(n) == [t |-> "int", n |-> n, s |-> <<>>]
StrVal(s) == [t |-> "str", n |-> 0, s |-> s]
\* A Python bool is an int: False is 0 and True is 1.
BoolVal(b) == [t |-> "bool", n |-> IF b THEN 1 ELSE 0, s |-> <<>>]

RECURSIVE Text(_)
\* The str a symbol sequence spells.
Text(s) == IF s = <<>> THEN "" ELSE Head(s) \o Text(Tail(s))

RECURSIVE SplitFrom(_, _)
\* str.split("__"): scan left to right, cut at every non-overlapping "__".
SplitFrom(s, cur) ==
    IF s = <<>> THEN <<cur>>
    ELSE IF Len(s) >= 2 /\ s[1] = "_" /\ s[2] = "_"
         THEN <<cur>> \o SplitFrom(SubSeq(s, 3, Len(s)), <<>>)
         ELSE SplitFrom(Tail(s), Append(cur, Head(s)))

split(field) == SplitFrom(field, <<>>)

(***************************************************************************)
(* The target entity type handed to apply_filters as `model`: its mapped   *)
(* columns (an integer, a string and a boolean one), and the attributes    *)
(* every declarative model class carries that are not columns.             *)
(***************************************************************************)
IntColumns == {"age"}
StrColumns == {"name"}
BoolColumns == {"active"}
Columns == IntColumns \cup StrColumns \cup BoolColumns
NonColumnAttrs == {"metadata", "registry"}

\* hasattr(model, column_name)
hasattr(column_name) == column_name \in Columns \cup NonColumnAttrs

operator_map_lte_as_lt ==
    [s \in {"__eq", "__lt", "__lte", "__gt", "__gte", "__icontains",
            "__startswith", "__endswith", "__not_startswith",
            "__not_endswith"} |->
        CASE s = "__eq" -> [fn |-> "eq", neg |-> FALSE, lead |-> FALSE, trail |-> FALSE]
          [] s = "__lt" -> [fn |-> "lt", neg |-> FALSE, lead |-> FALSE, trail |-> FALSE]
          [] s = "__lte" -> [fn |-> "lt", neg |-> FALSE, lead |-> FALSE, trail |-> FALSE]
          [] s = "__gt" -> [fn |-> "gt", neg |-> FALSE, lead |-> FALSE, trail |-> FALSE]
          [] s = "__gte" -> [fn |-> "ge", neg |-> FALSE, lead |-> FALSE, trail |-> FALSE]
          [] s = "__icontains" -> [fn |-> "ilike", neg |-> FALSE, lead |-> TRUE, trail |-> TRUE]
          [] s = "__startswith" -> [fn |-> "ilike", neg |-> FALSE, lead |-> FALSE, trail |-> TRUE]
          [] s = "__endswith" -> [fn |-> "ilike", neg |-> FALSE, lead |-> TRUE, trail |-> FALSE]
          [] s = "__not_startswith" -> [fn |-> "ilike", neg |-> TRUE, lead |-> FALSE, trail |-> TRUE]
          [] s = "__not_endswith" -> [fn |-> "ilike", neg |-> TRUE, lead |-> TRUE, trail |-> FALSE]]

\* The suffix vocabulary.  fn is the SQL operator; for ilike the pattern is
\* the value with "%" put before it (lead) and after it (trail), and neg is
\* the ~ in front.
operator_map ==
    [s \in {"__eq", "__lt", "__lte", "__gt", "__gte", "__icontains",
            "__startswith", "__endswith", "__not_startswith",
            "__not_endswith"} |->
        CASE s = "__eq" -> [fn |-> "eq", neg |-> FALSE, lead |-> FALSE, trail |-> FALSE]
          [] s = "__lt" -> [fn |-> "lt", neg |-> FALSE, lead |-> FALSE, trail |-> FALSE]
          [] s = "__lte" -> [fn |-> "le", neg |-> FALSE, lead |-> FALSE, trail |-> FALSE]
          [] s = "__gt" -> [fn |-> "gt", neg |-> FALSE, lead |-> FALSE, trail |-> FALSE]
          [] s = "__gte" -> [fn |-> "ge", neg |-> FALSE, lead |-> FALSE, trail |-> FALSE]
          [] s = "__icontains" -> [fn |-> "ilike", neg |-> FALSE, lead |-> TRUE, trail |-> TRUE]
          [] s = "__startswith" -> [fn |-> "ilike", neg |-> FALSE, lead |-> FALSE, trail |-> TRUE]
          [] s = "__endswith" -> [fn |-> "ilike", neg |-> FALSE, lead |-> TRUE, trail |-> FALSE]
          [] s = "__not_startswith" -> [fn |-> "ilike", neg |-> TRUE, lead |-> FALSE, trail |-> TRUE]
          [] s = "__not_endswith" -> [fn |-> "ilike", neg |-> TRUE, lead |-> TRUE, trail |-> FALSE]]

Comparisons == {"eq", "lt", "le", "gt", "ge"}

\* parts[0]
column_name(field) == Text(split(field)[1])

\* f"__{parts[1]}" if len(parts) > 1 else "__eq"
operator_suffix(field) ==
    LET parts == split(field)
    IN  IF Len(parts) > 1 THEN "__" \o Text(parts[2]) ELSE "__eq"

\* The condition under which an entry adds a predicate.
Recognized(field) ==
    hasattr(column_name(field)) /\ operator_suffix(field) \in DOMAIN operator_map

(***************************************************************************)
(* operator_fn(column, value).  On a mapped column it is a SQL expression. *)
(* On an attribute that is not a column, eq is Python's == between         *)
(* unrelated objects (False, which filter() takes as the SQL constant      *)
(* false), an ordering comparison raises TypeError and .ilike raises       *)
(* AttributeError.                                                         *)
(***************************************************************************)
Raises(field) ==
    /\ Recognized(field)
    /\ column_name(field) \notin Columns
    /\ operator_map[operator_suffix(field)].fn # "eq"

Predicate(field, value) ==
    [sqlFalse |-> column_name(field) \notin Columns,
     column |-> column_name(field),
     expr |-> operator_map[operator_suffix(field)],
     value |-> value]

RECURSIVE model_dump_truthy(_)
model_dump_truthy(entries) ==
    IF entries = <<>> THEN <<>>
    ELSE IF \/ Head(entries).value = None
            \/ Head(entries).value[1] \in {IntVal(0), BoolVal(FALSE), StrVal(<<>>)}
         THEN model_dump_truthy(Tail(entries))
         ELSE <<Head(entries)>> \o model_dump_truthy(Tail(entries))

\* model_dump(exclude_none=True).items(): the entries with a value, in order.
RECURSIVE model_dump(_)
model_dump(entries) ==
    IF entries = <<>> THEN <<>>
    ELSE IF Head(entries).value = None THEN model_dump(Tail(entries))
         ELSE <<Head(entries)>> \o model_dump(Tail(entries))

RECURSIVE Loop(_, _)
\* The for loop of apply_filters over the dumped entries, from `query`.
Loop(items, query) ==
    IF items = <<>> THEN [raised |-> FALSE, query |-> query]
    ELSE LET field == Head(items).key
             value == Head(items).value[1]
         IN  IF Recognized(field)
             THEN IF Raises(field)
                  THEN [raised |-> TRUE, query |-> query]
                  ELSE Loop(Tail(items), Append(query, Predicate(field, value)))
             ELSE Loop(Tail(items), query)

apply_filters(entries, query) == Loop(model_dump(entries), query)

(***************************************************************************)
(* The store's evaluation of a query: the rows on which every predicate is *)
(* true.  A comparison with a NULL cell is unknown, and so is its          *)
(* negation; only true selects.                                            *)
(***************************************************************************)
Lower(c) == CASE c = "O" -> "o" [] c = "A" -> "a" [] c = "T" -> "t" [] OTHER -> c

LowerStr(s) == [i \in 1..Len(s) |-> Lower(s[i])]

RECURSIVE LikeMatch(_, _)
\* LIKE: "%" matches any run of characters, "_" any one character.
LikeMatch(s, p) ==
    IF p = <<>> THEN s = <<>>
    ELSE IF Head(p) = "%"
         THEN LikeMatch(s, Tail(p)) \/ (s # <<>> /\ LikeMatch(Tail(s), p))
         ELSE /\ s # <<>>
              /\ (Head(p) = "_" \/ Head(p) = Head(s))
              /\ LikeMatch(Tail(s), Tail(p))

Pattern(expr, value) ==
    (IF expr.lead THEN <<"%">> ELSE <<>>) \o value
        \o (IF expr.trail THEN <<"%">> ELSE <<>>)

\* Whether predicate p is true of row r.
Holds(p, r) ==
    IF p.sqlFalse THEN FALSE
    ELSE LET cell == r[p.column]
         IN  /\ cell # None
             /\ CASE p.expr.fn = "eq" ->
                        cell[1] = (CASE p.value.t = "int" -> p.value.n
                                     [] p.value.t = "bool" -> (p.value.n = 1)
                                     [] OTHER -> p.value.s)
                  [] p.expr.fn = "lt" -> cell[1] < p.value.n
                  [] p.expr.fn = "le" -> cell[1] <= p.value.n
                  [] p.expr.fn = "gt" -> cell[1] > p.value.n
                  [] p.expr.fn = "ge" -> cell[1] >= p.value.n
                  [] p.expr.fn = "ilike" ->
                        (p.expr.neg # LikeMatch(LowerStr(cell[1]),
                                               LowerStr(Pattern(p.expr, p.value.s))))

Execute(query, table) ==
    {r \in table : \A i \in 1..Len(query) : Holds(query[i], r)}

(***************************************************************************)
(* The entity store: the luca_collections table and the sessions working   *)
(* on it.  A row has the primary key id, the unique collection name and    *)
(* the hidden flag.                                                        *)
(***************************************************************************)
MaxIds == 2

Sessions == {"s1", "s2"}
Names == {"a", "b"}
Ids == 1..MaxIds

\* Column defaults, applied when the row is inserted: hidden defaults to False.
WithDefaults(o) ==
    [id |-> o.id,
     collection |-> o.collection[1],
     hidden |-> IF o.hidden = None THEN FALSE ELSE o.hidden[1]]

\* setattr(obj, key, value) for each key of data, on row r.
SetAttrs(r, data) ==
    [id |-> r.id,
     collection |-> IF data.collection = None THEN r.collection ELSE data.collection[1],
     hidden |-> IF data.hidden = None THEN r.hidden ELSE data.hidden[1]]

UniqueIgnored(rows) == TRUE

UniquePerFlag(rows) ==
    \A r1, r2 \in rows :
        r1.collection = r2.collection /\ r1.hidden = r2.hidden => r1 = r2

ObjWithoutHidden(i, data) == [id |-> i, collection |-> data.collection, hidden |-> None]

\* An object as constructed by model(**data): the attributes data names.
Obj(i, data) == [id |-> i, collection |-> data.collection, hidden |-> data.hidden]

\* unique=True on Collection.collection: no two rows share a name.
Unique(rows) == \A r1, r2 \in rows : r1.collection = r2.collection => r1 = r2

\* Why flushing pending objects p and attribute changes d fails, or "ok":
\* the changed row is gone, or a NOT NULL column has no value.
FlushError(p, d) ==
    IF d # None /\ ~\E r \in db : r.id = d[1].id THEN "StaleData"
    ELSE IF \E i \in 1..Len(p) : p[i].collection = None
         THEN "NotNull"
         ELSE "ok"

\* The rows a transaction holds once p and d are flushed.
Staged(p, d) ==
    {IF d # None /\ r.id = d[1].id THEN SetAttrs(r, d[1].data) ELSE r : r \in db}
    \cup {WithDefaults(p[i]) : i \in 1..Len(p)}

\* The outcome of flushing and committing p and d.
CommitError(p, d) ==
    IF FlushError(p, d) # "ok" THEN FlushError(p, d)
    ELSE IF ~Unique(Staged(p, d)) THEN "Conflict" ELSE "ok"

NoData == [collection |-> None, hidden |-> None]
NoCriteria == [id |-> None, collection |-> None, hidden |-> None]
NoRow == [id |-> 0, collection |-> "", hidden |-> FALSE]

Op(op, s, criteria, data, flag, outcome, row) ==
    [op |-> op, session |-> s, criteria |-> criteria, data |-> data,
     flag |-> flag, outcome |-> outcome, row |-> row]

RowOf(rows, i) == CHOOSE r \in rows : r.id = i

\* The attribute mappings create is given: any name or none, hidden or not.
DataSet == [collection : {None} \cup {Some(n) : n \in Names},
            hidden : {None, Some(TRUE)}]

\* The attribute mappings update is given: a new name, or a new flag.
UpdateSet ==
    {[collection |-> Some(n), hidden |-> None] : n \in Names}
    \cup {[collection |-> None, hidden |-> Some(b)] : b \in BOOLEAN}

\* Criteria on one attribute: the key, the unique name, or the flag.
CriteriaSet ==
    {[id |-> Some(i), collection |-> None, hidden |-> None] : i \in Ids}
    \cup {[id |-> None, collection |-> Some(n), hidden |-> None] : n \in Names}
    \cup {[id |-> None, collection |-> None, hidden |-> Some(b)] : b \in BOOLEAN}

\* The criteria and defaults of get_or_create: defaults name attributes the
\* criteria leave open.
KeyCriteria == {c \in CriteriaSet : c.collection # None}
DefaultsSet == {d \in DataSet : d.collection = None}

\* An object that is no instance of the service's model.
NotAnInstance == NoRow

Idle(s) == goc[s] = None

\* The changes session s holds uncommitted, and those of all sessions.
Held(s) == Len(pending[s]) + (IF dirty[s] = None THEN 0 ELSE 1)

RECURSIVE SumHeld(_)
SumHeld(S) ==
    IF S = {} THEN 0
    ELSE LET s == CHOOSE x \in S : TRUE IN Held(s) + SumHeld(S \ {s})

Uncommitted == SumHeld(Sessions)
InFlight == \E s \in Sessions : goc[s] # None

\* The sessions whose requests defer commits (commit=False).
Holders == {"s1"}

\* Uncommitted work is explored one change at a time, in the sessions of
\* Holders, and not while a get_or_create is between its two steps.
MayHold(s) == s \in Holders /\ Uncommitted = 0 /\ ~InFlight

\* session.rollback() and close(): what the session held is dropped.
Rollback(s) ==
    /\ pending' = [pending EXCEPT ![s] = <<>>]
    /\ dirty' = [dirty EXCEPT ![s] = None]

CommitLost(s, p, d, gone) ==
    /\ db' = db
    /\ Rollback(s)

\* session.commit() of pending objects p and attribute changes d, minus the
\* rows `gone` that session.delete() marked; an error propagates to the
\* session dependency, which rolls back.  The flush inserts and updates
\* before it deletes.
Commit(s, p, d, gone) ==
    /\ db' = IF CommitError(p, d) = "ok"
             THEN {r \in Staged(p, d) : r.id \notin gone} ELSE db
    /\ Rollback(s)

\* DBService.create(data, commit), recorded in `last` as operation op.
CreateAs(op, s, criteria, data, commit) ==
    LET obj == Obj(nextId, data)
        p == Append(pending[s], obj)
        err == CommitError(p, dirty[s])
    IN  /\ nextId <= MaxIds
        /\ IF commit
           THEN /\ Commit(s, p, dirty[s], {})
                /\ nextId' = IF err = "ok" THEN nextId + 1 ELSE nextId
                /\ last' = IF err = "ok"
                           THEN Op(op, s, criteria, data, commit, "entity",
                                   RowOf(Staged(p, dirty[s]), nextId))
                           ELSE Op(op, s, criteria, data, commit, err, NoRow)
           ELSE /\ MayHold(s)
                /\ pending' = [pending EXCEPT ![s] = p]
                /\ nextId' = nextId + 1
                /\ last' = Op(op, s, criteria, data, commit, "None", NoRow)
                /\ UNCHANGED <<db, dirty>>

create(s) ==
    /\ Idle(s)
    /\ \E data \in DataSet, commit \in BOOLEAN :
          CreateAs("create", s, NoCriteria, data, commit)
    /\ UNCHANGED goc

ValueErrorAfterCommit(op, s, commit) ==
    /\ last' = Op(op, s, NoCriteria, NoData, commit, "ValueError", NoRow)
    /\ IF commit
       THEN Commit(s, pending[s], dirty[s], {})
       ELSE UNCHANGED <<db, pending, dirty>>

\* raise ValueError(...): the isinstance check is the first statement of
\* update and of delete, before setattr, session.delete and commit.
ValueError(op, s, commit) ==
    /\ last' = Op(op, s, NoCriteria, NoData, commit, "ValueError", NoRow)
    /\ UNCHANGED <<db, pending, dirty>>

\* DBService.update(obj, data, commit)
update(s) ==
    /\ Idle(s)
    /\ \E obj \in db \cup {NotAnInstance}, data \in UpdateSet, commit \in BOOLEAN :
          IF obj = NotAnInstance
          THEN ValueError("update", s, commit)
          ELSE LET old == IF dirty[s] = None THEN NoData ELSE dirty[s][1].data
                   d == Some([id |-> obj.id,
                              data |-> [collection |-> IF data.collection = None
                                                       THEN old.collection
                                                       ELSE data.collection,
                                        hidden |-> IF data.hidden = None
                                                   THEN old.hidden
                                                   ELSE data.hidden]])
                   err == CommitError(pending[s], d)
                   key == [NoCriteria EXCEPT !.id = Some(obj.id)]
               IN  /\ dirty[s] # None => dirty[s][1].id = obj.id
                   /\ IF commit
                      THEN /\ Commit(s, pending[s], d, {})
                           /\ last' = IF err = "ok"
                                      THEN Op("update", s, key, data, commit, "entity",
                                              RowOf(Staged(pending[s], d), obj.id))
                                      ELSE Op("update", s, key, data, commit, err, NoRow)
                      ELSE /\ MayHold(s)
                           /\ dirty' = [dirty EXCEPT ![s] = d]
                           /\ last' = Op("update", s, key, data, commit, "None", NoRow)
                           /\ UNCHANGED <<db, pending>>
    /\ UNCHANGED <<nextId, goc>>

\* DBService.delete(obj, commit)
delete(s) ==
    /\ Idle(s)
    /\ \E obj \in db \cup {NotAnInstance}, commit \in BOOLEAN :
          IF obj = NotAnInstance
          THEN ValueError("delete", s, commit)
          ELSE LET err == CommitError(pending[s], dirty[s])
                   key == [NoCriteria EXCEPT !.id = Some(obj.id)]
               IN  IF commit
                   THEN /\ Commit(s, pending[s], dirty[s], {obj.id})
                        /\ last' = Op("delete", s, key, NoData, commit,
                                      IF err = "ok" THEN "None" ELSE err, NoRow)
                   ELSE /\ last' = Op("delete", s, key, NoData, commit, "None", NoRow)
                        /\ UNCHANGED <<db, pending, dirty>>
    /\ UNCHANGED <<nextId, goc>>

\* Exact-equality conjunction of the attributes the criteria name.
Match(r, criteria) ==
    /\ criteria.id # None => r.id = criteria.id[1]
    /\ criteria.collection # None => r.collection = criteria.collection[1]
    /\ criteria.hidden # None => r.hidden = criteria.hidden[1]

\* The rows session s sees that match the criteria.
Matching(s, criteria) == {r \in Staged(pending[s], dirty[s]) : Match(r, criteria)}

LookupOutcomeFirst(m, raise_exception) ==
    IF Cardinality(m) >= 1 THEN "entity"
    ELSE IF raise_exception THEN "NotFound" ELSE "null"

LookupOutcomeLenient(m, raise_exception) ==
    IF Cardinality(m) > 1 THEN "MultipleResultsFound"
    ELSE IF Cardinality(m) = 1 THEN "entity" ELSE "null"

LookupOutcomeStrictOnly(m, raise_exception) ==
    IF Cardinality(m) > 1 THEN "MultipleResultsFound"
    ELSE IF Cardinality(m) = 1 /\ raise_exception THEN "entity"
         ELSE IF raise_exception THEN "NotFound" ELSE "null"

\* The outcome of a lookup that found the rows m.
LookupOutcome(m, raise_exception) ==
    IF Cardinality(m) > 1 THEN "MultipleResultsFound"
    ELSE IF Cardinality(m) = 1 THEN "entity"
         ELSE IF raise_exception THEN "NotFound" ELSE "null"

\* What Repository.get(criteria, failOnMissing) answers in session s.  The
\* query runs in the session's transaction, which first flushes what the
\* session holds; a store error propagates.
GetResult(s, criteria, raise_exception) ==
    LET err == CommitError(pending[s], dirty[s])
    IN  IF err # "ok" THEN [outcome |-> err, row |-> NoRow]
        ELSE LET m == Matching(s, criteria)
             IN  [outcome |-> LookupOutcome(m, raise_exception),
                  row |-> IF Cardinality(m) = 1 THEN CHOOSE r \in m : TRUE ELSE NoRow]

StoreErrors == {"Conflict", "NotNull", "StaleData"}

\* Repository.get, recorded in `last` as op; a store error reaches the
\* session dependency, which rolls back.
GetAs(op, s, criteria, data, raise_exception) ==
    LET g == GetResult(s, criteria, raise_exception)
    IN  /\ last' = Op(op, s, criteria, data, raise_exception, g.outcome, g.row)
        /\ IF g.outcome \in StoreErrors
           THEN Rollback(s)
           ELSE UNCHANGED <<pending, dirty>>

get(s) ==
    /\ Idle(s)
    /\ \E criteria \in CriteriaSet, raise_exception \in BOOLEAN :
          GetAs("get", s, criteria, NoData, raise_exception)
    /\ UNCHANGED <<db, nextId, goc>>

\* The attributes get_or_create creates with: the criteria and the defaults.
CreateData(criteria, defaults) ==
    [collection |-> IF criteria.collection # None THEN criteria.collection
                    ELSE defaults.collection,
     hidden |-> IF criteria.hidden # None THEN criteria.hidden ELSE defaults.hidden]

\* Repository.getOrCreate(criteria, defaults), first step: the non-failing get.
get_or_create_get(s) ==
    /\ Idle(s)
    /\ Uncommitted = 0
    /\ \E criteria \in KeyCriteria, defaults \in DefaultsSet :
          /\ GetAs("get_or_create_get", s, criteria, defaults, FALSE)
          /\ goc' = IF last'.outcome = "null"
                    THEN [goc EXCEPT ![s] = Some([criteria |-> criteria,
                                                  defaults |-> defaults])]
                    ELSE goc
    /\ UNCHANGED <<db, nextId>>

\* Repository.getOrCreate, second step: create with the defaults, committed.
get_or_create_create(s) ==
    /\ goc[s] # None
    /\ CreateAs("get_or_create_create", s, goc[s][1].criteria,
                CreateData(goc[s][1].criteria, goc[s][1].defaults), TRUE)
    /\ goc' = [goc EXCEPT ![s] = None]

\* The request ends: the session dependency closes the session, and what was
\* not committed is dropped.
close(s) ==
    /\ Idle(s)
    /\ ~(pending[s] = <<>> /\ dirty[s] = None)
    /\ Rollback(s)
    /\ last' = Op("close", s, NoCriteria, NoData, FALSE, "None", NoRow)
    /\ UNCHANGED <<db, nextId, goc>>

StoreInit ==
    /\ db = {}
    /\ nextId = 1
    /\ pending = [s \in Sessions |-> <<>>]
    /\ dirty = [s \in Sessions |-> None]
    /\ goc = [s \in Sessions |-> None]
    /\ last = Op("init", "s1", NoCriteria, NoData, FALSE, "None", NoRow)

(***************************************************************************)
(* The response envelope (core/renderer.py).  A Python value is tagged     *)
(* with its type; v holds the items of a list, the keys of a dict or the   *)
(* words of a str.                                                         *)
(***************************************************************************)
Py(t, v) == [t |-> t, v |-> v]
PyNone == Py("None", <<>>)
PyStr(s) == Py("str", s)
PyList(items) == Py("list", items)
PyDict(keys) == Py("dict", keys)

\* bool(x): None and the empty list, dict and str are false.
truthy(x) == x.t # "None" /\ x.v # <<>>

\* ujson.dumps of a value: None is null, a list an array, a dict an object.
dumps(x) ==
    [t |-> CASE x.t = "None" -> "null"
             [] x.t = "list" -> "array"
             [] x.t = "dict" -> "object"
             [] x.t = "str" -> "string",
     v |-> x.v]

\* The parameters of CustomResponse.__init__, and those without a default.
InitParams == {"content", "info", "headers", "media_type", "background", "status_code"}
InitRequired == {"content", "info"}

\* Binding a call's keyword arguments to the parameters.
Bind(kwargs) ==
    IF kwargs \subseteq InitParams /\ InitRequired \subseteq kwargs
    THEN "ok" ELSE "TypeError"

\* The ResponseInfo dataclass; a field left out takes its default.
ResponseInfo(details, metadata, message) ==
    [details |-> details, metadata |-> metadata, message |-> message]

\* CustomResponse.clean on the attributes __init__ set.
clean(content, info) ==
    [info |-> [message |-> info.message,
               details |-> IF ~truthy(info.details) THEN PyDict(<<>>) ELSE info.details,
               metadata |-> info.metadata],
     data |-> IF ~truthy(content) THEN PyList(<<>>) ELSE content]

status_messages_without_404 ==
    (200 :> PyStr(<<"Success">>))
    @@ (201 :> PyStr(<<"Resource Name created successfully">>))
    @@ (400 :> PyStr(<<"Bad request">>))
    @@ (422 :> PyStr(<<"Invalid Content send">>))

\* The default messages of create_response.
status_messages ==
    (200 :> PyStr(<<"Success">>))
    @@ (201 :> PyStr(<<"Resource Name created successfully">>))
    @@ (400 :> PyStr(<<"Bad request">>))
    @@ (422 :> PyStr(<<"Invalid Content send">>))
    @@ (404 :> PyStr(<<"Item not found">>))

\* status_messages.get(status_code, "Unknown error")
status_message(status_code) ==
    IF status_code \in DOMAIN status_messages
    THEN status_messages[status_code] ELSE PyStr(<<"Unknown error">>)

\* x or {}
or_dict(x) == IF truthy(x) THEN x ELSE PyDict(<<>>)

\* message or status_messages.get(...)
final_message(status_code, message) ==
    IF truthy(message) THEN message ELSE status_message(status_code)

\* create_response: the APIResponse it returns.
APIResponse(status_code, message, data, details, metadata) ==
    [info |-> [message |-> final_message(status_code, message),
               details |-> or_dict(details),
               metadata |-> or_dict(metadata)],
     data |-> or_dict(data)]


\* The arguments responses are built from.
Contents ==
    {PyNone, PyList(<<>>), PyDict(<<>>), PyDict(<<"id">>), PyList(<<"row">>)}
Dicts == {PyNone, PyDict(<<>>), PyDict(<<"k">>)}
Messages == {PyNone, PyStr(<<>>), PyStr(<<"Custom">>)}
StatusCodes == {200, 201, 204, 400, 404, 409, 422, 500}

NoEnvelope == [k \in {} |-> PyNone]
NoResponse ==
    [via |-> "", kwargs |-> {}, status_code |-> 0, content |-> PyNone,
     info |-> ResponseInfo(PyNone, PyNone, PyNone), raised |-> "None",
     envelope |-> NoEnvelope]

\* CustomResponse(**kwargs): __init__ binds the arguments, and the base
\* class's __init__ renders the body with clean().
CustomResponse(via, kwargs, content, info, status_code) ==
    response' =
        [via |-> via, kwargs |-> kwargs, status_code |-> status_code,
         content |-> content, info |-> info,
         raised |-> IF Bind(kwargs) = "ok" THEN "None" ELSE "TypeError",
         envelope |-> IF Bind(kwargs) = "ok" THEN clean(content, info) ELSE NoEnvelope]

\* A response built with the arguments __init__ declares.
custom_response ==
    /\ response = NoResponse
    /\ \E content \in Contents, details \in Dicts, metadata \in Dicts,
          message \in Messages \ {PyNone}, status_code \in StatusCodes :
          CustomResponse("CustomResponse", {"content", "info", "status_code"},
                         content, ResponseInfo(details, metadata, message), status_code)

\* The handler of HTTPException: status_code, message, content, message_type.
http_exception_handler ==
    /\ response = NoResponse
    /\ \E status_code \in StatusCodes :
          CustomResponse("http_exception_handler",
                         {"status_code", "message", "content", "message_type"},
                         PyDict(<<>>),
                         ResponseInfo(PyNone, PyNone, PyStr(<<"detail">>)), status_code)

\* The handler of RequestValidationError: status_code, message, details,
\* message_type.
validation_exception_handler ==
    /\ response = NoResponse
    /\ CustomResponse("validation_exception_handler",
                      {"status_code", "message", "details", "message_type"},
                      PyNone,
                      ResponseInfo(PyList(<<"loc">>), PyNone, PyStr(<<"msg">>)), 422)

\* What create_collection returns: CustomResponse(content=..., status_code=201).
create_collection ==
    /\ response = NoResponse
    /\ CustomResponse("create_collection", {"content", "status_code"},
                      PyDict(<<"id">>), ResponseInfo(PyNone, PyNone, PyStr(<<>>)), 201)

\* What delete_collection returns: CustomResponse(message="").
delete_collection ==
    /\ response = NoResponse
    /\ CustomResponse("delete_collection", {"message"},
                      PyNone, ResponseInfo(PyNone, PyNone, PyStr(<<>>)), 200)

create_response ==
    /\ response = NoResponse
    /\ \E status_code \in StatusCodes, message \in Messages,
          data \in {PyNone, PyDict(<<>>), PyDict(<<"id">>)},
          details \in Dicts, metadata \in Dicts :
          response' =
              [via |-> "create_response",
               kwargs |-> {"status_code", "message", "data", "details", "metadata"},
               status_code |-> status_code, content |-> data,
               info |-> ResponseInfo(details, metadata, message), raised |-> "None",
               envelope |-> APIResponse(status_code, message, data, details, metadata)]

EnvelopeNext ==
    \/ custom_response /\ UNCHANGED <<filterVars, storeVars, contentVars, queryVars, pageVars>>
    \/ http_exception_handler /\ UNCHANGED <<filterVars, storeVars, contentVars, queryVars, pageVars>>
    \/ validation_exception_handler /\ UNCHANGED <<filterVars, storeVars, contentVars, queryVars, pageVars>>
    \/ create_collection /\ UNCHANGED <<filterVars, storeVars, contentVars, queryVars, pageVars>>
    \/ delete_collection /\ UNCHANGED <<filterVars, storeVars, contentVars, queryVars, pageVars>>
    \/ create_response /\ UNCHANGED <<filterVars, storeVars, contentVars, queryVars, pageVars>>

(***************************************************************************)
(* The content tables: luca_collections as the content operations see it   *)
(* (the unique name and the singleton flag), luca_content, and the tables  *)
(* luca_fields, luca_relations, luca_revisions and luca_translations,      *)
(* whose rows name a collection.  The requests commit (commit=True).       *)
(***************************************************************************)
UUIDs == {"u1", "u2"}
Statuses == {"draft", "published"}
Times == {1, 2}
RefTables == {"luca_fields", "luca_relations", "luca_revisions", "luca_translations"}

\* The attribute mapping of a create or an update: None where not supplied.
\* one_collection is the second collection a Relation names.
AttrsOf(collection, status, is_draft, singleton, one_collection) ==
    [collection |-> collection, status |-> status, is_draft |-> is_draft,
     singleton |-> singleton, one_collection |-> one_collection]

Attrs(collection, status, is_draft, singleton) ==
    AttrsOf(collection, status, is_draft, singleton, None)

NoAttrs == Attrs(None, None, None, None)

\* Column defaults of Content, applied when the row is inserted at time t:
\* status "draft", is_draft True, version 1, last_modified now().
ContentDefaults(i, data, t) ==
    [id |-> i,
     collection |-> data.collection[1],
     status |-> IF data.status = None THEN "draft" ELSE data.status[1],
     is_draft |-> IF data.is_draft = None THEN TRUE ELSE data.is_draft[1],
     version |-> 1,
     last_modified |-> t]

\* Column defaults of Collection: singleton defaults to False.
CollectionDefaults(data) ==
    [collection |-> data.collection[1],
     singleton |-> IF data.singleton = None THEN FALSE ELSE data.singleton[1]]

ContentSetAttrsReset(c, data) ==
    [c EXCEPT !.collection = IF data.collection = None THEN @ ELSE data.collection[1],
              !.status = IF data.status = None THEN "draft" ELSE data.status[1],
              !.is_draft = IF data.is_draft = None THEN TRUE ELSE data.is_draft[1]]

\* setattr(obj, key, value) for each key of data, on the Content c.
ContentSetAttrs(c, data) ==
    [c EXCEPT !.collection = IF data.collection = None THEN @ ELSE data.collection[1],
              !.status = IF data.status = None THEN @ ELSE data.status[1],
              !.is_draft = IF data.is_draft = None THEN @ ELSE data.is_draft[1]]

\* The UPDATE the flush emits for Content c at time t: none when no attribute
\* has a new value; otherwise the new values and last_modified = now()
\* (onupdate).  No other column is computed on update.
ContentUpdated(c, data, t) ==
    IF ContentSetAttrs(c, data) = c THEN c
    ELSE [ContentSetAttrs(c, data) EXCEPT !.last_modified = t]

\* setattr for each key of data, on the Collection c.
CollectionSetAttrs(c, data) ==
    [collection |-> IF data.collection = None THEN c.collection ELSE data.collection[1],
     singleton |-> IF data.singleton = None THEN c.singleton ELSE data.singleton[1]]

\* A row of luca_fields, luca_revisions or luca_translations names one
\* collection; a row of luca_relations names two (many_collection, held in
\* `collection`, and one_collection).
Reference(table, collection, one_collection) ==
    [table |-> table, collection |-> collection, one_collection |-> one_collection]

ReferenceSet ==
    {Reference(t, n, None) : t \in RefTables \ {"luca_relations"}, n \in Names}
    \cup {Reference("luca_relations", n, Some(m)) : n \in Names, m \in Names}

CollectionNames(cs) == {c.collection : c \in cs}

\* The collection names the rows of the referencing tables carry.
Referenced(ct, rs) ==
    {c.collection : c \in ct}
    \cup {r.collection : r \in rs}
    \cup {r.one_collection[1] : r \in {x \in rs : x.one_collection # None}}

ForeignKeyIgnored(cs, ct, rs) == TRUE

\* ForeignKey("luca_collections.collection"), with no ON DELETE or ON UPDATE
\* action: every name a referencing row carries is the name of a collection.
ForeignKey(cs, ct, rs) == Referenced(ct, rs) \subseteq CollectionNames(cs)

Done(op, target, data, outcome) ==
    [op |-> op, target |-> target, data |-> data, outcome |-> outcome]

\* session.commit() of a request that leaves the tables as cs, ct and rs,
\* unless the unique name is taken (taken) or a foreign key is violated: the
\* error propagates and the session dependency rolls back.
Flush(op, target, data, taken, cs, ct, rs) ==
    LET err == IF taken THEN "Conflict"
               ELSE IF ~ForeignKey(cs, ct, rs) THEN "ForeignKey" ELSE "ok"
    IN  /\ collections' = IF err = "ok" THEN cs ELSE collections
        /\ contents' = IF err = "ok" THEN ct ELSE contents
        /\ references' = IF err = "ok" THEN rs ELSE references
        /\ done' = Done(op, target, data, err)

CollectionCreates ==
    {Attrs(Some(n), None, None, f) : n \in Names, f \in {None, Some(TRUE)}}

CollectionUpdates ==
    {Attrs(Some(n), None, None, None) : n \in Names}
    \cup {Attrs(None, None, None, Some(b)) : b \in BOOLEAN}

ContentCreates ==
    {Attrs(Some(n), st, dr, None) :
        n \in Names, st \in {None, Some("published")}, dr \in {None, Some(FALSE)}}

ContentUpdates ==
    {Attrs(Some(n), None, None, None) : n \in Names}
    \cup {Attrs(None, Some(st), None, None) : st \in Statuses}
    \cup {Attrs(None, None, Some(b), None) : b \in BOOLEAN}

\* Collection.create(session, data)
Collection_create ==
    \E data \in CollectionCreates :
        Flush("Collection.create", data.collection[1], data,
              data.collection[1] \in CollectionNames(collections),
              collections \cup {CollectionDefaults(data)}, contents, references)

\* collection.update(session, data)
Collection_update ==
    \E c \in collections, data \in CollectionUpdates :
        Flush("Collection.update", c.collection, data,
              CollectionSetAttrs(c, data).collection
                  \in CollectionNames(collections \ {c}),
              (collections \ {c}) \cup {CollectionSetAttrs(c, data)},
              contents, references)

\* collection.delete(session)
Collection_delete ==
    \E c \in collections :
        Flush("Collection.delete", c.collection, NoAttrs, FALSE,
              collections \ {c}, contents, references)

\* Content.create(session, data), as create_content calls it; the primary
\* key is a fresh uuid4.  A second Content is explored while the other
\* referencing tables are empty.
Content_create ==
    /\ references = {} \/ contents = {}
    /\ \E i \in UUIDs \ {c.id : c \in contents}, data \in ContentCreates, t \in Times :
        Flush("Content.create", i, data, FALSE,
              collections, contents \cup {ContentDefaults(i, data, t)}, references)

\* content.update(session, data), as update_content calls it.
Content_update ==
    \E c \in contents, data \in ContentUpdates :
        \E t \in {x \in Times : x >= c.last_modified} :
            Flush("Content.update", c.id, data, FALSE,
                  collections, (contents \ {c}) \cup {ContentUpdated(c, data, t)},
                  references)

\* content.delete(session), as delete_content calls it.
Content_delete ==
    \E c \in contents :
        Flush("Content.delete", c.id, NoAttrs, FALSE,
              collections, contents \ {c}, references)

\* create of a Field, Relation, Revision or Translation; the rows of these
\* tables are explored one at a time, next to at most one Content.
Reference_create ==
    /\ references = {}
    /\ Cardinality(contents) <= 1
    /\ \E r \in ReferenceSet :
          Flush("Reference.create", r.table,
                AttrsOf(Some(r.collection), None, None, None, r.one_collection), FALSE,
                collections, contents, references \cup {r})

\* update of the collection a Field, Relation, Revision or Translation names.
Reference_update ==
    \E r \in references, n \in Names :
        Flush("Reference.update", r.table, Attrs(Some(n), None, None, None), FALSE,
              collections, contents,
              (references \ {r}) \cup {[r EXCEPT !.collection = n]})

\* delete of a Field, Relation, Revision or Translation.
Reference_delete ==
    \E r \in references :
        Flush("Reference.delete", r.table, NoAttrs, FALSE,
              collections, contents, references \ {r})

ContentInit ==
    /\ collections = {}
    /\ contents = {}
    /\ references = {}
    /\ done = Done("init", "", NoAttrs, "ok")

ContentNext ==
    \/ Collection_create /\ UNCHANGED <<filterVars, storeVars, envelopeVars, queryVars, pageVars>>
    \/ Collection_update /\ UNCHANGED <<filterVars, storeVars, envelopeVars, queryVars, pageVars>>
    \/ Collection_delete /\ UNCHANGED <<filterVars, storeVars, envelopeVars, queryVars, pageVars>>
    \/ Content_create /\ UNCHANGED <<filterVars, storeVars, envelopeVars, queryVars, pageVars>>
    \/ Content_update /\ UNCHANGED <<filterVars, storeVars, envelopeVars, queryVars, pageVars>>
    \/ Content_delete /\ UNCHANGED <<filterVars, storeVars, envelopeVars, queryVars, pageVars>>
    \/ Reference_create /\ UNCHANGED <<filterVars, storeVars, envelopeVars, queryVars, pageVars>>
    \/ Reference_update /\ UNCHANGED <<filterVars, storeVars, envelopeVars, queryVars, pageVars>>
    \/ Reference_delete /\ UNCHANGED <<filterVars, storeVars, envelopeVars, queryVars, pageVars>>

(***************************************************************************)
(* The query service (DBService) and the wrappers it returns (QueryResult, *)
(* QueryResultList).  The built query is select(model) plus what where,    *)
(* join, order_by and limit added to it.                                   *)
(***************************************************************************)
MaxChain == 2
MaxCalls == 3

Kinds == {"QueryResult", "QueryResultList"}
Conditions == {"hidden = false"}
Targets == {"Field"}
OrderColumns == {"collection"}
Counts == {1, 10}

\* A model instance, and what schema.dump makes of it: a dict of its fields.
Instance(i, n) == [cls |-> "Collection", id |-> i, collection |-> n]
Instances == {Instance(1, "a"), Instance(2, "b")}
dump(obj) == [id |-> obj.id, collection |-> obj.collection]
dump_many(objs) == [i \in 1..Len(objs) |-> dump(objs[i])]

\* select(model)
select == [where |-> <<>>, join |-> <<>>, order_by |-> <<>>, limit |-> None]

\* The number of clauses the query carries.
Size(q) ==
    Len(q.where) + Len(q.join) + Len(q.order_by) + (IF q.limit = None THEN 0 ELSE 1)

\* A wrapper: the objects it wraps, its _executed flag, and how often its
\* serialize was called.  live is false while none was constructed.
Wrapper(objs) == [live |-> TRUE, objs |-> objs, executed |-> FALSE, calls |-> 0]
NoWrapper == [live |-> FALSE, objs |-> <<>>, executed |-> FALSE, calls |-> 0]

Answer(op, kind, outcome, data) ==
    [op |-> op, kind |-> kind, outcome |-> outcome, data |-> data]

ensure_not_executed_never == FALSE

\* DBService._ensure_not_executed raises.
ensure_not_executed == service.executed

\* where, join, order_by and limit: the check first, then the new query.
Chain(op, q) ==
    IF ensure_not_executed
    THEN /\ returned' = Answer(op, "", "RuntimeError", <<>>)
         /\ UNCHANGED service
    ELSE /\ Size(service.query) < MaxChain
         /\ service' = [service EXCEPT !.query = q]
         /\ returned' = Answer(op, "", "self", <<>>)

where ==
    /\ \E c \in Conditions :
          Chain("where", [service.query EXCEPT !.where = Append(@, c)])
    /\ UNCHANGED wrappers

join ==
    /\ \E t \in Targets, is_outer \in BOOLEAN :
          Chain("join", [service.query EXCEPT
                            !.join = Append(@, [target |-> t, is_outer |-> is_outer])])
    /\ UNCHANGED wrappers

order_by ==
    /\ \E c \in OrderColumns :
          Chain("order_by", [service.query EXCEPT !.order_by = Append(@, c)])
    /\ UNCHANGED wrappers

limit ==
    /\ \E n \in Counts :
          Chain("limit", [service.query EXCEPT !.limit = Some(n)])
    /\ UNCHANGED wrappers

\* The lists a store call may answer with.
ObjLists == {<<>>, <<Instance(1, "a"), Instance(2, "b")>>}

\* DBService.execute: the flag is set, then the store is called; the call
\* fails, or its rows come back in a QueryResultList.  One wrapper of each
\* kind is followed.
execute ==
    /\ ~wrappers["QueryResultList"].live
    /\ service' = [service EXCEPT !.executed = TRUE]
    /\ \/ /\ returned' = Answer("execute", "", "StoreError", <<>>)
          /\ UNCHANGED wrappers
       \/ \E objs \in ObjLists :
             /\ wrappers' = [wrappers EXCEPT !["QueryResultList"] = Wrapper(objs)]
             /\ returned' = Answer("execute", "", "QueryResultList", <<>>)

\* DBService.create and update with commit=True return QueryResult(obj).
create_result ==
    /\ ~wrappers["QueryResult"].live
    /\ \E obj \in Instances :
          /\ wrappers' = [wrappers EXCEPT !["QueryResult"] = Wrapper(<<obj>>)]
          /\ returned' = Answer("create", "", "QueryResult", <<>>)
    /\ UNCHANGED service

serialize_again(w, k) ==
    [outcome |-> IF k = "QueryResult" /\ w.objs = <<>> THEN "None" ELSE "data",
     data |-> dump_many(w.objs),
     executed |-> FALSE]

\* QueryResult.serialize and QueryResultList.serialize of wrapper w of kind
\* k: what it answers, and the flag afterwards.
serialize_once(w, k) ==
    IF w.executed
    THEN [outcome |-> "RuntimeError", data |-> <<>>, executed |-> TRUE]
    ELSE [outcome |-> IF k = "QueryResult" /\ w.objs = <<>> THEN "None" ELSE "data",
          data |-> dump_many(w.objs),
          executed |-> TRUE]

serialize ==
    /\ \E k \in Kinds :
          LET w == wrappers[k]
              r == serialize_once(w, k)
          IN  /\ w.live
              /\ w.calls < MaxCalls
              /\ wrappers' = [wrappers EXCEPT ![k] =
                                 [w EXCEPT !.executed = r.executed, !.calls = @ + 1]]
              /\ returned' = Answer("serialize", k, r.outcome, r.data)
    /\ UNCHANGED service

QueryInit ==
    /\ service = [query |-> select, executed |-> FALSE]
    /\ wrappers = [k \in Kinds |-> NoWrapper]
    /\ returned = Answer("init", "", "None", <<>>)

QueryNext ==
    \/ where /\ UNCHANGED <<filterVars, storeVars, envelopeVars, contentVars, pageVars>>
    \/ join /\ UNCHANGED <<filterVars, storeVars, envelopeVars, contentVars, pageVars>>
    \/ order_by /\ UNCHANGED <<filterVars, storeVars, envelopeVars, contentVars, pageVars>>
    \/ limit /\ UNCHANGED <<filterVars, storeVars, envelopeVars, contentVars, pageVars>>
    \/ execute /\ UNCHANGED <<filterVars, storeVars, envelopeVars, contentVars, pageVars>>
    \/ create_result /\ UNCHANGED <<filterVars, storeVars, envelopeVars, contentVars, pageVars>>
    \/ serialize /\ UNCHANGED <<filterVars, storeVars, envelopeVars, contentVars, pageVars>>

(***************************************************************************)
(* The list endpoints (list_collections, list_contents): page and limit    *)
(* become LIMIT and OFFSET of a select that has no ORDER BY, so each       *)
(* query's row order is the store's choice.                                *)
(***************************************************************************)
MaxRows == 3
MaxPage == 3
MaxLimit == 2

Endpoints == {"list_collections", "list_contents"}

\* The orders in which the store may return the rows of table S.
RowOrders(S) ==
    {f \in [1..Cardinality(S) -> S] : \A i, j \in 1..Cardinality(S) : f[i] = f[j] => i = j}

\* The rows from position first on (counted from 1), at most count of them;
\* count = None stands for no LIMIT.
Slice(order, first, count) ==
    LET last_ == IF count = None \/ first + count[1] - 1 > Len(order)
                 THEN Len(order) ELSE first + count[1] - 1
    IN  [i \in 1..(IF last_ >= first THEN last_ - first + 1 ELSE 0) |-> order[first + i - 1]]

\* query.limit(limit) if limit is truthy; query.offset((page - 1) * limit)
\* if page is truthy; then the store answers from the row order it chose.
Paginate(order, page, limit_) ==
    Slice(order,
          IF page # 0 THEN (page - 1) * limit_ + 1 ELSE 1,
          IF limit_ # 0 THEN Some(limit_) ELSE None)

NoListing == [endpoint |-> "", limit |-> 0, pages |-> [p \in 1..MaxPage |-> None]]

\* A list request for one page.  The requests followed are those of one
\* endpoint with one limit, over the unchanged table.
List(e) ==
    \E page \in 1..MaxPage, limit_ \in 1..MaxLimit, order \in RowOrders(listed) :
        /\ listing.endpoint \in {"", e}
        /\ listing.limit \in {0, limit_}
        /\ listing.pages[page] = None
        /\ listing' = [endpoint |-> e, limit |-> limit_,
                       pages |-> [listing.pages EXCEPT
                                     ![page] = Some(Paginate(order, page, limit_))]]
        /\ UNCHANGED listed

list_collections == List("list_collections")

list_contents == List("list_contents")

PageInit ==
    /\ listed \in {1..n : n \in 0..MaxRows}
    /\ listing = NoListing

PageNext ==
    \/ list_collections
         /\ UNCHANGED <<filterVars, storeVars, envelopeVars, contentVars, queryVars>>
    \/ list_contents
         /\ UNCHANGED <<filterVars, storeVars, envelopeVars, contentVars, queryVars>>

(***************************************************************************)
(* The inputs of the filter engine.  A value is tagged with its Python     *)
(* type.  A key is its parts joined by "__".                               *)
(***************************************************************************)
MaxParts == 3
MaxEntries == 2

IntValues == {IntVal(0), IntVal(10), IntVal(15), IntVal(18)}
StrValues == {StrVal(<<>>), StrVal(<<"o", "m">>), StrVal(<<"A">>), StrVal(<<"_">>)}
BoolValues == {BoolVal(FALSE), BoolVal(TRUE)}
Values == IntValues \cup StrValues \cup BoolValues

FieldWords ==
    {<<"age">>, <<"name">>, <<"active">>, <<"metadata">>, <<"nocol">>, <<"age", "_">>}
SuffixWords ==
    {<<"eq">>, <<"lt">>, <<"lte">>, <<"gt">>, <<"gte">>, <<"icontains">>,
     <<"startswith">>, <<"endswith">>, <<"not", "_", "startswith">>,
     <<"not", "_", "endswith">>, <<"between">>}
ShortWords == {<<"age">>, <<"nocol">>, <<"gte">>, <<"between">>}

RECURSIVE Join(_)
Join(parts) ==
    IF Len(parts) = 1 THEN parts[1]
    ELSE parts[1] \o <<"_", "_">> \o Join(Tail(parts))

Keys ==
    FieldWords
    \cup {Join(<<f, s>>) : f \in FieldWords, s \in SuffixWords}
    \cup UNION {{Join(p) : p \in [1..n -> ShortWords]} : n \in 3..MaxParts}

\* A filter class declares each field with the type of the column it is
\* meant for: the store is only handed comparisons it can evaluate.
Typed(field, value) ==
    Recognized(field) /\ column_name(field) \in Columns =>
        LET fn == operator_map[operator_suffix(field)].fn
        IN  CASE column_name(field) \in IntColumns ->
                     value.t = "int" /\ fn \in Comparisons
              [] column_name(field) \in BoolColumns ->
                     value.t = "bool" /\ fn = "eq"
              [] OTHER -> value.t = "str" /\ fn \in {"eq", "ilike"}

Entries ==
    {[key |-> k, value |-> None] : k \in Keys}
    \cup {e \in {[key |-> k, value |-> Some(v)] : k \in Keys, v \in Values} :
            Typed(e.key, e.value[1])}

\* The entries the filters of several fields are made of.
CoreEntries ==
    {[key |-> Join(<<<<"age">>, <<"gte">>>>), value |-> Some(IntVal(18))],
     [key |-> Join(<<<<"age">>, <<"lt">>>>), value |-> Some(IntVal(18))],
     [key |-> <<"name">>, value |-> Some(StrVal(<<"a", "b", "c">>))],
     [key |-> Join(<<<<"name">>, <<"icontains">>>>), value |-> Some(StrVal(<<"o", "m">>))],
     [key |-> Join(<<<<"age">>, <<"between">>>>), value |-> Some(IntVal(10))],
     [key |-> <<"nocol">>, value |-> Some(IntVal(10))],
     [key |-> <<"age">>, value |-> None]}

DistinctKeys(f) == \A i, j \in 1..Len(f) : f[i].key = f[j].key => i = j

Filters ==
    {<<>>}
    \cup {<<e>> : e \in Entries}
    \cup UNION {{f \in [1..n -> CoreEntries] : DistinctKeys(f)} : n \in 2..MaxEntries}

Row(i, age, name, active) == [id |-> i, age |-> age, name |-> name, active |-> active]

RowUniverse ==
    {Row(1, Some(5), Some(<<"O", "m", "i", "d">>), Some(TRUE)),
     Row(2, Some(15), Some(<<"t", "o", "m", "c", "a", "t">>), Some(FALSE)),
     Row(3, Some(25), Some(<<"a", "b", "c">>), Some(TRUE)),
     Row(4, None, None, None),
     Row(5, Some(18), Some(<<"A", "l">>), Some(FALSE))}

Tables == SUBSET RowUniverse

\* The query apply_filters is handed: select(model), bare or already filtered.
BaseQueries ==
    {<<>>,
     <<[sqlFalse |-> FALSE, column |-> "age", expr |-> operator_map["__gt"],
        value |-> IntVal(10)]>>}

NoCall == [entries |-> <<>>, query |-> <<>>, table |-> {}]
NoResult == [raised |-> FALSE, query |-> <<>>, rows |-> {}]

\* One call of apply_filters on a fresh filter object, and the store's answer
\* to the query it built.
Outcome(entries, query, table) ==
    LET out == apply_filters(entries, query)
    IN  [raised |-> out.raised,
         query |-> out.query,
         rows |-> IF out.raised THEN {} ELSE Execute(out.query, table)]

ApplyFilters ==
    /\ call = NoCall
    /\ \E entries \in Filters, query \in BaseQueries, table \in Tables :
        /\ call' = [entries |-> entries, query |-> query, table |-> table]
        /\ result' = Outcome(entries, query, table)

FilterInit ==
    /\ call = NoCall /\ result = NoResult /\ StoreInit /\ response = NoResponse
    /\ ContentInit /\ QueryInit /\ listed = {} /\ listing = NoListing

FilterNext == ApplyFilters /\ UNCHANGED <<storeVars, envelopeVars, contentVars, queryVars, pageVars>>

FilterSpec == FilterInit /\ [][FilterNext]_vars

Init ==
    /\ StoreInit /\ call = NoCall /\ result = NoResult /\ response = NoResponse
    /\ ContentInit /\ QueryInit /\ listed = {} /\ listing = NoListing

Next ==
    \/ \E s \in Sessions : create(s) /\ UNCHANGED <<filterVars, envelopeVars, contentVars, queryVars, pageVars>>
    \/ \E s \in Sessions : update(s) /\ UNCHANGED <<filterVars, envelopeVars, contentVars, queryVars, pageVars>>
    \/ \E s \in Sessions : delete(s) /\ UNCHANGED <<filterVars, envelopeVars, contentVars, queryVars, pageVars>>
    \/ \E s \in Sessions : get(s) /\ UNCHANGED <<filterVars, envelopeVars, contentVars, queryVars, pageVars>>
    \/ \E s \in Sessions : get_or_create_get(s) /\ UNCHANGED <<filterVars, envelopeVars, contentVars, queryVars, pageVars>>
    \/ \E s \in Sessions : get_or_create_create(s) /\ UNCHANGED <<filterVars, envelopeVars, contentVars, queryVars, pageVars>>
    \/ \E s \in Sessions : close(s) /\ UNCHANGED <<filterVars, envelopeVars, contentVars, queryVars, pageVars>>

Spec == Init /\ [][Next]_vars

EnvelopeSpec == Init /\ [][EnvelopeNext]_vars

ContentSpec == Init /\ [][ContentNext]_vars

QuerySpec == Init /\ [][QueryNext]_vars

PageSpecInit ==
    /\ StoreInit /\ call = NoCall /\ result = NoResult /\ response = NoResponse
    /\ ContentInit /\ QueryInit /\ PageInit

PageSpec == PageSpecInit /\ [][PageNext]_vars

(***************************************************************************)
(* Properties of the filter engine, checked under FilterSpec.              *)
(***************************************************************************)
Called == call # NoCall

\* The places of "__" in a key, and the key cut at the last of them.
Cuts(field) == {i \in 1..(Len(field) - 1) : field[i] = "_" /\ field[i + 1] = "_"}
LastCut(field) == CHOOSE i \in Cuts(field) : \A j \in Cuts(field) : j <= i
LastBase(field) ==
    IF Cuts(field) = {} THEN field ELSE SubSeq(field, 1, LastCut(field) - 1)
LastToken(field) == SubSeq(field, LastCut(field) + 2, Len(field))

\* Entry i of the call is the only entry that carries a value.
OnlyValued(i) ==
    /\ i \in 1..Len(call.entries)
    /\ \A j \in 1..Len(call.entries) : (call.entries[j].value # None) <=> (j = i)

\* The rows the handed query selects before any entry is applied.
BaseRows == Execute(call.query, call.table)

\* What the suffix token op asks of a cell c against the value v.
Compares(op, c, v) ==
    CASE op = "eq" -> c = (CASE v.t = "int" -> v.n
                             [] v.t = "bool" -> (v.n = 1)
                             [] OTHER -> v.s)
      [] op = "lt" -> c < v.n
      [] op = "lte" -> c <= v.n
      [] op = "gt" -> c > v.n
      [] op = "gte" -> c >= v.n

ComparisonTokens == {"eq", "lt", "lte", "gt", "gte"}

\* Entry e is column c with no suffix (op = "eq") or with suffix "__" op.
IsComparisonEntry(e, c, op) ==
    /\ e.value # None
    /\ \/ e.key = <<c>> /\ op = "eq"
       \/ e.key = <<c, "_", "_", op>>

\* C7: an entry on an existing column with no suffix or with suffix __eq,
\* __lt, __lte, __gt or __gte and a non-null value v selects exactly the rows
\* whose column value is equal to, less than, less-or-equal, greater than or
\* greater-or-equal to v: every selected row satisfies the comparison, and
\* when it is the only entry the selected rows are exactly the rows of the
\* handed query that satisfy it.
C7_ComparisonSelectsExactly ==
    Called =>
        \A i \in 1..Len(call.entries), c \in Columns, op \in ComparisonTokens :
            IsComparisonEntry(call.entries[i], c, op) =>
                LET v == call.entries[i].value[1]
                    Wanted(r) == r[c] # None /\ Compares(op, r[c][1], v)
                IN  /\ \A r \in result.rows : Wanted(r)
                    /\ OnlyValued(i) =>
                          /\ ~result.raised
                          /\ result.rows = {r \in BaseRows : Wanted(r)}

\* age__gte=18 was applied to a table it splits: rows with age >= 18 are
\* selected and rows with a smaller or no age are not.
C7_Witness ==
    /\ Called
    /\ Len(call.entries) = 1
    /\ call.entries[1] = [key |-> <<"age", "_", "_", "gte">>, value |-> Some(IntVal(18))]
    /\ call.query = <<>>
    /\ call.table = RowUniverse
    /\ result.rows = {r \in RowUniverse : r.id \in {3, 5}}

\* C8: an entry whose suffix (the token after the last "__") is not in the
\* recognized vocabulary is dropped without error and applies no predicate:
\* the result is the result of the same call without that entry.
Without(f, i) == SubSeq(f, 1, i - 1) \o SubSeq(f, i + 1, Len(f))

Vocabulary ==
    {<<"eq">>, <<"lt">>, <<"lte">>, <<"gt">>, <<"gte">>, <<"icontains">>,
     <<"startswith">>, <<"endswith">>, <<"not", "_", "startswith">>,
     <<"not", "_", "endswith">>}

C8_UnknownSuffixDropped ==
    Called =>
        \A i \in 1..Len(call.entries) :
            LET key == call.entries[i].key
            IN  Cuts(key) # {} /\ LastToken(key) \notin Vocabulary =>
                    result = Outcome(Without(call.entries, i), call.query, call.table)

\* C9: an entry whose base field name does not name a persisted column of
\* the target entity type is silently dropped: it adds no predicate and no
\* error is raised.
C9_NonColumnDropped ==
    Called =>
        \A i \in 1..Len(call.entries) :
            column_name(call.entries[i].key) \notin Columns =>
                result = Outcome(Without(call.entries, i), call.query, call.table)

\* C10: the base field name is everything before the last "__" of the key
\* and the operator suffix is everything after it, also when the key holds
\* more than one "__".
C10_SplitOnLast ==
    Called =>
        \A i \in 1..Len(call.entries) :
            LET key == call.entries[i].key
            IN  Cuts(key) # {} =>
                    /\ column_name(key) = Text(LastBase(key))
                    /\ operator_suffix(key) = "__" \o Text(LastToken(key))

\* The operator token of a key as the specification reads it: what follows
\* the last "__", or eq when the key has none.
SpecToken(field) == IF Cuts(field) = {} THEN <<"eq">> ELSE LastToken(field)

\* An entry the specification recognizes: it carries a value, its base field
\* name is a persisted column and its token is in the vocabulary.
SpecRecognized(e) ==
    /\ e.value # None
    /\ Text(LastBase(e.key)) \in Columns
    /\ SpecToken(e.key) \in Vocabulary

\* The orders in which the entries f can be given.
Orders(f) ==
    {g \in [1..Len(f) -> {f[i] : i \in 1..Len(f)}] :
        \A i \in 1..Len(f) : \E j \in 1..Len(f) : g[j] = f[i]}

\* C11: the rows selected are exactly the rows of the handed query on which
\* the predicate of every recognized entry is true; the result does not
\* depend on the order of the entries; and with no recognized entry the
\* query is returned unchanged.
C11_ConjunctionOfRecognized ==
    Called =>
        LET rec == {i \in 1..Len(call.entries) : SpecRecognized(call.entries[i])}
        IN  /\ ~result.raised
            /\ result.rows =
                  {r \in BaseRows :
                      \A i \in rec : Holds(Predicate(call.entries[i].key,
                                                     call.entries[i].value[1]), r)}
            /\ \A g \in Orders(call.entries) :
                  Outcome(g, call.query, call.table).rows = result.rows
            /\ rec = {} => result.query = call.query

\* The predicates apply_filters added to the handed query.
Added == {result.query[j] : j \in (Len(call.query) + 1)..Len(result.query)}

\* C12: an entry is ignored exactly when its value is null: with a null
\* value the result is that of the call without the entry, and with any
\* other value (0, False and the empty string included) on a recognized
\* field and suffix its predicate is in the query.
C12_IgnoredIffNull ==
    Called =>
        \A i \in 1..Len(call.entries) :
            LET e == call.entries[i]
            IN  /\ e.value = None =>
                      result = Outcome(Without(call.entries, i), call.query, call.table)
                /\ SpecRecognized(e) =>
                      /\ ~result.raised
                      /\ Predicate(e.key, e.value[1]) \in Added

\* age=0 was applied to a table with rows: the predicate is in the query and
\* selects none of them, as no row has age 0.
C12_Witness ==
    /\ Called
    /\ call.entries = <<[key |-> <<"age">>, value |-> Some(IntVal(0))]>>
    /\ call.query = <<>>
    /\ call.table = RowUniverse
    /\ Len(result.query) = 1
    /\ result.rows = {}

\* Text v is at the start of, at the end of, somewhere in text s.
IsPrefix(v, s) == Len(v) <= Len(s) /\ SubSeq(s, 1, Len(v)) = v
IsSuffix(v, s) == Len(v) <= Len(s) /\ SubSeq(s, Len(s) - Len(v) + 1, Len(s)) = v
IsInfix(v, s) == \E k \in 0..(Len(s) - Len(v)) : SubSeq(s, k + 1, k + Len(v)) = v

\* What the text token op asks of a name c against the value v, case ignored.
TextMatches(op, c, v) ==
    CASE op = "icontains" -> IsInfix(LowerStr(v), LowerStr(c))
      [] op = "startswith" -> IsPrefix(LowerStr(v), LowerStr(c))
      [] op = "endswith" -> IsSuffix(LowerStr(v), LowerStr(c))

TextTokens == {"icontains", "startswith", "endswith"}

\* C13: for every string value v, name__icontains=v selects exactly the rows
\* whose name contains v when case is ignored, and name__startswith=v and
\* name__endswith=v exactly the rows whose name begins and ends with v.
C13_TextMatchSelectsExactly ==
    Called =>
        \A i \in 1..Len(call.entries), c \in StrColumns, op \in TextTokens :
            LET e == call.entries[i]
            IN  (e.value # None /\ e.key = <<c, "_", "_", op>>) =>
                    LET Wanted(r) == r[c] # None /\ TextMatches(op, r[c][1], e.value[1].s)
                    IN  /\ \A r \in result.rows : Wanted(r)
                        /\ OnlyValued(i) =>
                              /\ ~result.raised
                              /\ result.rows = {r \in BaseRows : Wanted(r)}

\* C14: name__not_startswith=v selects exactly the complement of the rows
\* name__startswith=v selects: every row of the handed query whose name does
\* not begin with v when case is ignored, rows without a name included.
C14_NotStartswithComplement ==
    Called =>
        \A i \in 1..Len(call.entries), c \in StrColumns :
            LET e == call.entries[i]
            IN  (OnlyValued(i) /\ e.key = <<c, "_", "_", "not", "_", "startswith">>) =>
                    LET started ==
                            Outcome(<<[key |-> <<c, "_", "_", "startswith">>,
                                       value |-> e.value]>>, call.query, call.table).rows
                    IN  /\ ~result.raised
                        /\ result.rows = BaseRows \ started
                        /\ \A r \in BaseRows :
                              r \in result.rows <=>
                                  ~(r[c] # None /\ TextMatches("startswith", r[c][1],
                                                               e.value[1].s))

(***************************************************************************)
(* Properties of the repository, checked under Spec.                       *)
(***************************************************************************)
\* C1: a get whose criteria match more than one row fails with
\* MultipleResultsFound, for every row count >= 2 and for both values of
\* failOnMissing; it never returns one of the matching rows.
C1_MultipleResultsFound ==
    (/\ last.op = "get"
     /\ last.outcome \notin StoreErrors
     /\ Cardinality(Matching(last.session, last.criteria)) >= 2)
        => last.outcome = "MultipleResultsFound" /\ last.row = NoRow

\* A get on the flag, with failOnMissing false, met two rows that carry it.
C1_Witness ==
    /\ last.op = "get"
    /\ ~last.flag
    /\ last.criteria.hidden = Some(FALSE)
    /\ Cardinality(db) = 2
    /\ \A r \in db : ~r.hidden
    /\ last.outcome = "MultipleResultsFound"

\* C2: a get whose criteria match no row returns null when failOnMissing is
\* false and fails with NotFound when it is true, and in both cases leaves
\* the store (and what the sessions hold) as it was.
C2_ZeroRows ==
    [][(/\ last'.op = "get"
        /\ CommitError(pending[last'.session], dirty[last'.session]) = "ok"
        /\ Matching(last'.session, last'.criteria) = {})
          => /\ last'.outcome = (IF last'.flag THEN "NotFound" ELSE "null")
             /\ last'.row = NoRow
             /\ UNCHANGED <<db, nextId, pending, dirty, goc>>]_vars

\* A get with failOnMissing true found nothing in a store that holds rows.
C2_Witness ==
    /\ last.op = "get"
    /\ last.flag
    /\ db # {}
    /\ Matching(last.session, last.criteria) = {}
    /\ last.outcome = "NotFound"

\* The attributes the mapping data supplies have these values in row r.
EqualOnSupplied(r, data) ==
    /\ data.collection # None => r.collection = data.collection[1]
    /\ data.hidden # None => r.hidden = data.hidden[1]

\* C3: after a create that returned the persisted entity, a get with the
\* generated identifier returns a row equal to the supplied mapping on every
\* supplied attribute.
C3_CreateGetRoundTrip ==
    (last.op = "create" /\ last.outcome = "entity") =>
        LET g == GetResult(last.session,
                           [NoCriteria EXCEPT !.id = Some(last.row.id)], TRUE)
        IN  /\ g.outcome = "entity"
            /\ g.row.id = last.row.id
            /\ EqualOnSupplied(g.row, last.data)

\* A create that supplied both attributes, a flag other than the default
\* among them, is read back by its identifier.
C3_Witness ==
    /\ last.op = "create"
    /\ last.outcome = "entity"
    /\ last.data = [collection |-> Some("b"), hidden |-> Some(TRUE)]
    /\ GetResult(last.session, [NoCriteria EXCEPT !.id = Some(last.row.id)],
                 TRUE).row = [id |-> last.row.id, collection |-> "b", hidden |-> TRUE]

\* C4: when get_or_create callers race on the same criteria on the unique
\* name, at most one row with those criteria is persisted: the create step
\* either persists the one row or fails with Conflict and adds none.
C4_RaceConflict ==
    last.op = "get_or_create_create" =>
        LET m == {r \in db : Match(r, last.criteria)}
        IN  /\ Cardinality(m) <= 1
            /\ \/ last.outcome = "entity" /\ m = {last.row}
               \/ last.outcome = "Conflict" /\ last.row = NoRow /\ m # {}

\* Both callers had found the name absent; the second create then met the
\* row of the first.
C4_Witness ==
    /\ last.op = "get_or_create_create"
    /\ last.outcome = "Conflict"
    /\ \E r \in db : Match(r, last.criteria)
    /\ Cardinality(db) = 1
    /\ nextId = 2

\* C5: a get_or_create whose criteria match an existing row returns that
\* row, performs no create and leaves every row of the store unchanged,
\* whatever defaults are passed.
C5_GetOrCreateExisting ==
    [][(/\ last'.op = "get_or_create_get"
        /\ CommitError(pending[last'.session], dirty[last'.session]) = "ok"
        /\ Cardinality(Matching(last'.session, last'.criteria)) = 1)
          => /\ last'.outcome = "entity"
             /\ last'.row \in Matching(last'.session, last'.criteria)
             /\ goc'[last'.session] = None
             /\ UNCHANGED <<db, nextId, pending, dirty>>]_vars

\* A get_or_create found the row; the defaults named a flag the row does not
\* have, and the row kept its own.
C5_Witness ==
    /\ last.op = "get_or_create_get"
    /\ last.outcome = "entity"
    /\ last.data.hidden = Some(TRUE)
    /\ ~last.row.hidden
    /\ last.row \in db
    /\ \A s \in Sessions : goc[s] = None

Built == response # NoResponse /\ response.raised = "None"

EmptyArray == [t |-> "array", v |-> <<>>]
EmptyObject == [t |-> "object", v |-> <<>>]

\* C15: whenever the caller supplies no content, the data of the envelope is
\* the empty array, never the empty object, whether the envelope is built by
\* CustomResponse.clean or by create_response.
C15_NoContentIsEmptyArray ==
    (Built /\ response.content = PyNone) =>
        dumps(response.envelope.data) = EmptyArray

\* C16: whenever details or metadata is omitted, the envelope carries the
\* empty object for it; neither is rendered as null.
C16_OmittedInfoIsEmptyObject ==
    Built =>
        /\ response.info.details = PyNone =>
              dumps(response.envelope.info.details) = EmptyObject
        /\ response.info.metadata = PyNone =>
              dumps(response.envelope.info.metadata) = EmptyObject
        /\ dumps(response.envelope.info.details).t # "null"
        /\ dumps(response.envelope.info.metadata).t # "null"

\* A create_response call that was given no message.
Defaulted == Built /\ response.via = "create_response" /\ response.info.message = PyNone

\* C17, as stated: with no message supplied, info.message is "Success" for
\* 200, "Resource created" for 201, "Bad request" for 400, "Invalid content"
\* for 422, "Item not found" for 404 and "Unknown error" for any other code.
C17_DefaultMessageAsStated ==
    Defaulted =>
        response.envelope.info.message =
            PyStr(<<CASE response.status_code = 200 -> "Success"
                      [] response.status_code = 201 -> "Resource created"
                      [] response.status_code = 400 -> "Bad request"
                      [] response.status_code = 422 -> "Invalid content"
                      [] response.status_code = 404 -> "Item not found"
                      [] OTHER -> "Unknown error">>)

\* C17, amended: with no message supplied, info.message is "Success" for
\* 200, "Resource Name created successfully" for 201, "Bad request" for 400,
\* "Invalid Content send" for 422, "Item not found" for 404 and
\* "Unknown error" for any other code.
C17_DefaultMessage ==
    Defaulted =>
        response.envelope.info.message =
            PyStr(<<CASE response.status_code = 200 -> "Success"
                      [] response.status_code = 201 -> "Resource Name created successfully"
                      [] response.status_code = 400 -> "Bad request"
                      [] response.status_code = 422 -> "Invalid Content send"
                      [] response.status_code = 404 -> "Item not found"
                      [] OTHER -> "Unknown error">>)

\* create_response(404, None, ...) answered "Item not found".
C17_Witness ==
    /\ Defaulted
    /\ response.status_code = 404
    /\ response.envelope.info.message = PyStr(<<"Item not found">>)

\* C18: create_response returns the supplied data unchanged and, when a
\* message is supplied, uses it verbatim for every status code instead of
\* the default; with no message, 201 gives
\* "Resource Name created successfully".
C18_DataAndMessageVerbatim ==
    (Built /\ response.via = "create_response") =>
        /\ response.content # PyNone => response.envelope.data = response.content
        /\ response.info.message # PyNone =>
              response.envelope.info.message = response.info.message
        /\ (response.info.message = PyNone /\ response.status_code = 201) =>
              response.envelope.info.message =
                  PyStr(<<"Resource Name created successfully">>)

\* C19: every response, success or error, the HTTPException and validation
\* handlers included, renders as an object with exactly the keys info and
\* data, where info has exactly the keys message, details and metadata.
C19_EnvelopeShape ==
    response # NoResponse =>
        /\ response.raised = "None"
        /\ DOMAIN response.envelope = {"info", "data"}
        /\ DOMAIN response.envelope.info = {"message", "details", "metadata"}

(***************************************************************************)
(* Durability of the store operations, checked under Spec.                 *)
(***************************************************************************)
\* The last operation was a create, update or delete that returned.
Returned ==
    /\ last.op \in {"create", "update", "delete"}
    /\ last.outcome \in {"entity", "None"}

\* The identifier the last create, update or delete worked on.
Target == IF last.op = "create" THEN nextId - 1 ELSE last.criteria.id[1]

\* The effect of the last operation is in the committed rows.
Committed ==
    IF last.op = "delete"
    THEN ~\E r \in db : r.id = Target
    ELSE \E r \in db : r.id = Target /\ EqualOnSupplied(r, last.data)

\* Every session that holds nothing of its own reads the effect.
Visible ==
    \A s \in Sessions :
        Held(s) = 0 =>
            LET g == GetResult(s, [NoCriteria EXCEPT !.id = Some(Target)], FALSE)
            IN  IF last.op = "delete"
                THEN g.outcome = "null"
                ELSE g.outcome = "entity" /\ EqualOnSupplied(g.row, last.data)

\* A step in which a request ends or fails leaves the committed rows alone.
EndsOrFails ==
    \/ last'.op = "close"
    \/ last'.outcome \in StoreErrors \cup {"ValueError", "NotFound", "MultipleResultsFound"}

\* C20, as stated: when create, update or delete returns, its effect has
\* been committed to the store and is visible to every other session.
C20_CommittedOnReturn == Returned => (Committed /\ Visible)

\* C20, amended: when create, update or delete is called with commit=True
\* and returns, its effect has been committed to the store and is visible to
\* every other session, and no later end or failure of a request changes
\* the committed rows.
C20_CommittedWhenCommitTrue ==
    /\ []((Returned /\ last.flag) => (Committed /\ Visible))
    /\ [][EndsOrFails => db' = db]_vars

\* s2 committed a change of the flag of a row, and s1, which had deferred
\* nothing, reads it.
C20_Witness ==
    /\ last.op = "update"
    /\ last.session = "s2"
    /\ last.flag
    /\ last.outcome = "entity"
    /\ last.data.hidden = Some(TRUE)
    /\ Held("s1") = 0
    /\ GetResult("s1", [NoCriteria EXCEPT !.id = Some(Target)], FALSE).row.hidden

(***************************************************************************)
(* Properties of the content tables, checked under ContentSpec.            *)
(***************************************************************************)
\* The Content the last operation worked on, before and after the step.
Before(i) == CHOOSE c \in contents : c.id = i
After(i) == CHOOSE c \in contents' : c.id = i

\* The step is an update of a Content that succeeded and changed the row.
MutatingUpdate ==
    /\ done'.op = "Content.update"
    /\ done'.outcome = "ok"
    /\ contents' # contents

\* C21: Content.version strictly increases on every mutating update of a
\* Content row: after each successful update that changes the row, its
\* version is greater than it was before the update.
C21_VersionIncreases ==
    [][MutatingUpdate => After(done'.target).version > Before(done'.target).version]_vars

\* C22: in every reachable state, after any sequence of creates and updates
\* of Content, every Content row with status "draft" has is_draft true.
C22_DraftIsDraft == \A c \in contents : c.status = "draft" => c.is_draft

\* The Content rows that name the collection n.
ContentOf(n) == {c \in contents : c.collection = n}

\* C23: in every reachable state, a Collection whose singleton flag is true
\* has at most one Content row referencing it.
C23_SingletonAtMostOne ==
    \A col \in collections : col.singleton => Cardinality(ContentOf(col.collection)) <= 1

\* The attributes the mapping data supplies have the supplied values in the
\* Content a, and the others have the values they have in b.
OnlySupplied(b, a, data) ==
    /\ a.id = b.id
    /\ a.version = b.version
    /\ a.collection = (IF data.collection = None THEN b.collection ELSE data.collection[1])
    /\ a.status = (IF data.status = None THEN b.status ELSE data.status[1])
    /\ a.is_draft = (IF data.is_draft = None THEN b.is_draft ELSE data.is_draft[1])

\* The step is a successful update of a Content: the row keeps its key, every
\* other row of every table is as it was, and the row differs from what it
\* was only in the supplied attributes and, when keep_last_modified is false,
\* in last_modified, which does not go back.
ContentUpdateFrame(keep_last_modified) ==
    (done'.op = "Content.update" /\ done'.outcome = "ok") =>
        /\ collections' = collections
        /\ references' = references
        /\ {c.id : c \in contents'} = {c.id : c \in contents}
        /\ \A c \in contents : c.id # done'.target => c \in contents'
        /\ OnlySupplied(Before(done'.target), After(done'.target), done'.data)
        /\ IF keep_last_modified
           THEN After(done'.target).last_modified = Before(done'.target).last_modified
           ELSE After(done'.target).last_modified >= Before(done'.target).last_modified

\* The step is a successful update of a Collection: the row has the supplied
\* attributes, keeps the other one, and every other row is as it was.
CollectionUpdateFrame ==
    (done'.op = "Collection.update" /\ done'.outcome = "ok") =>
        LET b == CHOOSE c \in collections : c.collection = done'.target
            a == [collection |-> IF done'.data.collection = None THEN b.collection
                                 ELSE done'.data.collection[1],
                  singleton |-> IF done'.data.singleton = None THEN b.singleton
                                ELSE done'.data.singleton[1]]
        IN  /\ collections' = (collections \ {b}) \cup {a}
            /\ contents' = contents
            /\ references' = references

\* C24, as stated: update(entity, attributes) changes only the supplied
\* attributes of the row identified by the entity's primary key: every
\* attribute not in the mapping, and every other row, keeps its previous value.
C24_OnlySuppliedChange ==
    [][ContentUpdateFrame(TRUE) /\ CollectionUpdateFrame]_vars

\* C24, amended: update(entity, attributes) changes only the supplied
\* attributes of the row identified by the entity's primary key and, on a
\* Content whose UPDATE changes a value, its last_modified; every other
\* attribute, and every other row, keeps its previous value.
C24_OnlySuppliedAndLastModified ==
    [][ContentUpdateFrame(FALSE) /\ CollectionUpdateFrame]_vars

\* A Content that was not a draft was published next to another Content: it
\* is still not a draft, and its last_modified is the later time.
C24_Witness ==
    /\ done.op = "Content.update"
    /\ done.outcome = "ok"
    /\ done.data.status = Some("published")
    /\ Cardinality(contents) = 2
    /\ \E c \in contents :
          /\ c.id = done.target
          /\ c.status = "published"
          /\ ~c.is_draft
          /\ c.last_modified = 2

\* The three tables are as they were.
TablesUnchanged == UNCHANGED <<collections, contents, references>>

\* The step creates a Content, Field, Relation, Revision or Translation
\* that names a collection the store does not have.
CreatesForMissing ==
    /\ done'.op \in {"Content.create", "Reference.create"}
    /\ \/ done'.data.collection[1] \notin CollectionNames(collections)
       \/ /\ done'.data.one_collection # None
          /\ done'.data.one_collection[1] \notin CollectionNames(collections)

\* The step deletes a Collection that a row names, or gives it another name.
RemovesReferenced ==
    /\ done'.target \in Referenced(contents, references)
    /\ \/ done'.op = "Collection.delete"
       \/ /\ done'.op = "Collection.update"
          /\ done'.data.collection # None
          /\ done'.data.collection[1] # done'.target

\* C26: in every reachable state every Field, Relation, Revision, Content
\* and Translation row names a Collection that exists in the store; creating
\* such a row for a missing collection, and deleting or renaming a
\* Collection that is still referenced, fails and leaves the store unchanged.
C26_ReferentialIntegrity ==
    /\ [](Referenced(contents, references) \subseteq CollectionNames(collections))
    /\ [][(CreatesForMissing \/ RemovesReferenced)
             => done'.outcome \in {"ForeignKey", "Conflict"} /\ TablesUnchanged]_vars

\* The rename of collection a, which a Translation names, was refused.
C26_Witness ==
    /\ done.op = "Collection.update"
    /\ done.outcome = "ForeignKey"
    /\ done.target = "a"
    /\ done.data.collection = Some("b")
    /\ Reference("luca_translations", "a", None) \in references
    /\ \E c \in collections : c.collection = "a"

(***************************************************************************)
(* Properties of delete and of the instance check, checked under Spec.     *)
(***************************************************************************)
\* Session s finds no row with identifier i: null, or NotFound on demand.
Absent(s, i) ==
    /\ GetResult(s, [NoCriteria EXCEPT !.id = Some(i)], FALSE).outcome = "null"
    /\ GetResult(s, [NoCriteria EXCEPT !.id = Some(i)], TRUE).outcome = "NotFound"

\* The step is a delete by session s of the row with identifier i, which
\* returned without error.
Deletes(s, i) ==
    /\ last'.op = "delete"
    /\ last'.outcome = "None"
    /\ last'.session = s
    /\ last'.criteria.id = Some(i)

\* C25: delete(entity) is a hard delete: after delete returns without error
\* the row is no longer in the store, a get with its identifier returns null
\* (failOnMissing=false) or NotFound (failOnMissing=true), and no other row
\* is removed.
C25_HardDelete ==
    [][\A s \in Sessions, i \in Ids :
          Deletes(s, i) =>
              /\ ~\E r \in db' : r.id = i
              /\ Absent(s, i)'
              /\ \A r \in db : r.id # i => \E q \in db' : q.id = r.id]_vars

\* The step is an update or a delete that was handed an object that is not
\* an instance of the service's model.
HandedNotAnInstance ==
    /\ last'.op \in {"update", "delete"}
    /\ last'.criteria = NoCriteria

\* C29: DBService.update and DBService.delete called with an object that is
\* not an instance of the service's model raise ValueError before any
\* effect: no attribute is changed, nothing is deleted, nothing is committed.
C29_ValueErrorBeforeEffect ==
    [][HandedNotAnInstance =>
          /\ last'.outcome = "ValueError"
          /\ UNCHANGED <<db, nextId, pending, dirty, goc>>]_vars

\* An update with commit=True was refused in a session that holds an
\* uncommitted create: the create is still uncommitted.
C29_Witness ==
    /\ last.op = "update"
    /\ last.flag
    /\ last.outcome = "ValueError"
    /\ Len(pending[last.session]) = 1
    /\ db # {}

(***************************************************************************)
(* Properties of the wrappers and of the query service, checked under      *)
(* QuerySpec.                                                              *)
(***************************************************************************)
\* The step is a call of serialize on the wrapper of kind k.
Serializes(k) ==
    /\ returned'.op = "serialize"
    /\ returned'.kind = k
    /\ wrappers'[k].calls = wrappers[k].calls + 1

\* C27: QueryResult.serialize and QueryResultList.serialize are one-shot:
\* on each wrapper the first call returns the dumped data and every later
\* call raises RuntimeError; the executed flag never returns to false.
C27_SerializeOneShot ==
    [][\A k \in Kinds :
          /\ Serializes(k) =>
                IF wrappers[k].calls = 0
                THEN /\ returned'.outcome = "data"
                     /\ returned'.data = dump_many(wrappers[k].objs)
                ELSE /\ returned'.outcome = "RuntimeError"
                     /\ returned'.data = <<>>
          /\ wrappers[k].executed => wrappers'[k].executed]_vars

\* The third serialize of a list wrapper that holds two objects raised.
C27_Witness ==
    /\ returned.op = "serialize"
    /\ returned.kind = "QueryResultList"
    /\ returned.outcome = "RuntimeError"
    /\ wrappers["QueryResultList"].calls = 3
    /\ Len(wrappers["QueryResultList"].objs) = 2
    /\ wrappers["QueryResultList"].executed

ChainOps == {"where", "join", "order_by", "limit"}

\* C28: on a DBService, once execute() has been called, whether or not the
\* store call succeeded, every later where, join, order_by or limit raises
\* RuntimeError and leaves the built query unchanged; before the first
\* execute() none of them raises.  (The flag is false until the first
\* execute and true from then on, and the four raise exactly when it is
\* true.)
C28_NoChainAfterExecute ==
    /\ [][returned'.op = "execute" => service'.executed]_vars
    /\ [][service'.executed # service.executed
             => ~service.executed /\ returned'.op = "execute"]_vars
    /\ [][returned'.op \in ChainOps =>
             IF service.executed
             THEN returned'.outcome = "RuntimeError" /\ service' = service
             ELSE returned'.outcome = "self"]_vars

\* After an execute whose store call failed, limit raised and the query
\* still has the one clause it had.
C28_Witness ==
    /\ returned.op = "limit"
    /\ returned.outcome = "RuntimeError"
    /\ service.executed
    /\ ~wrappers["QueryResultList"].live
    /\ service.query = [select EXCEPT !.where = <<"hidden = false">>]

(***************************************************************************)
(* Properties of the list endpoints, checked under PageSpec.               *)
(***************************************************************************)
Requested(p) == listing.pages[p] # None
Page(p) == listing.pages[p][1]
Elems(seq) == {seq[i] : i \in 1..Len(seq)}

\* ceil(n / limit) for the n rows of the table and the limit of the listing.
LastPage == (Cardinality(listed) + listing.limit - 1) \div listing.limit

\* The places (page, index) of pages 1..LastPage at which row r was returned.
Places(r) ==
    {pi \in (1..LastPage) \X (1..MaxLimit) :
        pi[2] <= Len(Page(pi[1])) /\ Page(pi[1])[pi[2]] = r}

\* C30: for every page >= 1 and limit >= 1 the list endpoints return the
\* rows at positions (page-1)*limit .. page*limit-1 of the underlying row
\* sequence, so over an unchanged store consecutive pages are disjoint and
\* pages 1..ceil(n/limit) together contain each of the n rows exactly once.
C30_PagesPartition ==
    listing.limit >= 1 =>
        /\ \A p \in 1..(MaxPage - 1) :
              (Requested(p) /\ Requested(p + 1))
                  => Elems(Page(p)) \cap Elems(Page(p + 1)) = {}
        /\ (LastPage <= MaxPage /\ \A p \in 1..LastPage : Requested(p))
              => \A r \in listed : Cardinality(Places(r)) = 1

====
